---------------------------- MODULE Spec2Model ----------------------------
(***************************************************************************)
(* A model of src/app.py (NCAAM Summarizer): the schedule normalizer       *)
(* get_games, the prompt builder (safe_dump and the href redaction), the   *)
(* section splitter split_sections, and the script's main flow with its    *)
(* memoized loaders and the generator call.                                *)
(*                                                                         *)
(* JSON values are tagged records so that values of different JSON types   *)
(* can be compared; texts are sequences of one-character strings.          *)
(***************************************************************************)
EXTENDS Integers, Sequences, FiniteSets, TLC

VARIABLES
    target_team_id,   \* get_games: the requested team id
    df_reg,           \* get_games: rows of the regular-season retrieval
    df_post,          \* get_games: rows of the postseason retrieval
    df_events,        \* get_games: the returned frame (rows in order)
    gpc,              \* get_games: position in the function
    status_codes,     \* get_games: status codes of the responses received
    blocks,           \* the headed blocks the generator wrote its text from
    html_text,        \* split_sections: its argument
    sections,         \* split_sections: the returned mapping
    spc,              \* split_sections: position
    detail,           \* the game detail document as the upstream returned it
    data,             \* the document of line 282, edited in place
    clean_text,       \* the serialized, redacted sections of lines 290-293
    prompt,           \* the prompt of lines 296-376
    ppc,              \* prompt construction: position
    sel_season,       \* the season selectbox (line 222)
    sel_team,         \* the team selectbox (line 241)
    sel_game,         \* the game selectbox (line 268)
    clicked,          \* st.button of line 280 is true in this run
    cache_seasons,    \* st.cache_data of load_seasons holds a value
    cache_events,     \* st.cache_data of load_team_events_cached, per key
    fetched_ok,       \* the keys an upstream retrieval has returned a value for
    refetched,        \* the keys retrieved again after a value was returned
    pc,               \* the script run: position
    run_events,       \* the script run: df_events of line 251
    gen,              \* the script run: outcome of co.chat
    chat_calls,       \* the script run: calls of co.chat
    split_done,       \* the script run: split_sections was called
    rendered,         \* the script run: calls of render_card
    notice,           \* the script run: st.warning / st.error shown
    crashed_at        \* the step of the run that raised uncaught, or "none"

schedVars == <<target_team_id, df_reg, df_post, df_events, gpc, status_codes>>
splitVars == <<blocks, html_text, sections, spc>>
promptVars == <<detail, data, clean_text, prompt, ppc>>
widgetVars == <<sel_season, sel_team, sel_game, clicked>>
cacheVars == <<cache_seasons, cache_events, fetched_ok, refetched>>
runVars == <<pc, run_events, gen, chat_calls, split_done, rendered, notice, crashed_at>>
flowVars == <<widgetVars, cacheVars, runVars>>
vars == <<schedVars, splitVars, promptVars, flowVars>>
nonSched == <<splitVars, promptVars, flowVars>>
nonSplit == <<schedVars, promptVars, flowVars>>
nonPrompt == <<schedVars, splitVars, flowVars>>
nonFlow == <<schedVars, splitVars, promptVars>>

(***************************************************************************)
(* Bounds of the model.                                                    *)
(***************************************************************************)
MaxEvents == 2        \* events in one upstream schedule payload
MaxCompetitors == 2   \* competitors in one competition
MaxBlocks == 3        \* headed blocks in one generator output
MaxPairs == 2         \* key/value pairs in one JSON object of a game detail

(***************************************************************************)
(* Generic helpers.                                                        *)
(***************************************************************************)
SeqsUpTo(S, n) == UNION {[1..k -> S] : k \in 0..n}

RECURSIVE SelectRows(_, _, _)
\* the elements s[i], i >= from, in order, with keep[i] (a boolean mask)
SelectRows(s, keep, from) ==
    IF from > Len(s) THEN <<>>
    ELSE IF keep[from] THEN <<s[from]>> \o SelectRows(s, keep, from + 1)
    ELSE SelectRows(s, keep, from + 1)

(***************************************************************************)
(* Upstream schedule documents.  A key that the JSON object does not carry *)
(* is "absent"; a JSON null is "null".                                     *)
(***************************************************************************)
NaN == [isList |-> FALSE, items |-> <<>>]   \* pandas' fill for a missing key
NoId == "NaN"

Num(n) == [tag |-> "num", value |-> n]
AbsentScore == [tag |-> "absent", value |-> 0]
NullScore == [tag |-> "null", value |-> 0]

TeamIds == {"52", "96"}
TeamName(t) == IF t = "52" THEN "Florida Gators"
               ELSE IF t = "96" THEN "Kentucky Wildcats" ELSE "None"

ScoreVals == {AbsentScore, NullScore, Num(7), Num(12)}
WinnerVals == {"true", "false", "null", "absent"}

\* c.team.id is one of the team ids or absent ("" after str(team_obj.get("id", "")))
Competitors ==
    [team : TeamIds \cup {"absent"}, score : ScoreVals, winner : WinnerVals]

Competition(done, cs) == [completed |-> done, competitors |-> cs]
CompList(items) == [isList |-> TRUE, items |-> items]
Event(id, comps) == [id |-> id, competitions |-> comps]

Won(t) == [team |-> t, score |-> Num(12), winner |-> "true"]
Lost(t) == [team |-> t, score |-> Num(7), winner |-> "false"]

\* events of the list-shaped payloads: two ids, finished or not, two outcomes
ListEvents ==
    {Event(id, c) : id \in {"401", "402"},
                    c \in {CompList(<<Competition("true", <<Won("52"), Lost("96")>>)>>),
                           CompList(<<Competition("true", <<Lost("52"), Won("96")>>)>>),
                           CompList(<<Competition("false", <<Won("52"), Lost("96")>>)>>)}}

\* events of the one-row payloads: a finished game with any competitors
RowEvents ==
    {Event("401", CompList(<<Competition("true", cs)>>)) :
        cs \in SeqsUpTo(Competitors, MaxCompetitors)}

\* events that miss a key or carry an empty or unfinished competition
OddEvents ==
    {Event(id, c) : id \in {"401", NoId},
                    c \in {NaN, CompList(<<>>),
                           CompList(<<Competition("absent", <<Won("52"), Lost("96")>>)>>),
                           CompList(<<Competition("true", <<Won("52"), Lost("96")>>)>>)}}

ListPayloads == SeqsUpTo(ListEvents, MaxEvents)
RowPayloads == {<<e>> : e \in RowEvents}
OddPayloads == SeqsUpTo(OddEvents, MaxEvents)

\* the payloads the regular-season retrieval may return
RegPayloads == ListPayloads \cup RowPayloads \cup OddPayloads

\* the payloads the postseason retrieval may return after reg
PostPayloadsFor(reg) ==
    (IF reg \in ListPayloads THEN ListPayloads ELSE {})
    \cup (IF reg \in OddPayloads THEN OddPayloads ELSE {})
    \cup {<<>>}

(***************************************************************************)
(* get_games (src/app.py 24-148).                                          *)
(***************************************************************************)
\* fetch_schedule: data.get("events", []) flattened to rows
fetch_schedule(events) == events

\* "id" in df_events.columns: some event carried the key
HasIdColumn(df) == \E i \in 1..Len(df) : df[i].id # NoId
HasCompetitionsColumn(df) == \E i \in 1..Len(df) : df[i].competitions # NaN

\* keep="last" in place of the default keep="first"
drop_duplicates_last(df) ==
    SelectRows(df, [i \in 1..Len(df) |->
                      ~\E j \in (i+1)..Len(df) : df[j].id = df[i].id], 1)

\* df.drop_duplicates(subset="id"): keep the first row of each id (NaN = NaN)
drop_duplicates(df) ==
    SelectRows(df, [i \in 1..Len(df) |->
                      ~\E j \in 1..(i-1) : df[j].id = df[i].id], 1)

\* a filter that takes a missing completed flag for a finished game
is_completed_unless_false(comps) ==
    /\ comps.isList
    /\ Len(comps.items) > 0
    /\ comps.items[1].completed # "false"

\* the lambda of lines 74-81
is_completed(comps) ==
    /\ comps.isList
    /\ Len(comps.items) > 0
    /\ comps.items[1].completed = "true"

\* the character U+2013 of the f-string of line 118
EnDash == "u2013"

Digit(d) == CASE d = 0 -> "0" [] d = 1 -> "1" [] d = 2 -> "2" [] d = 3 -> "3"
              [] d = 4 -> "4" [] d = 5 -> "5" [] d = 6 -> "6" [] d = 7 -> "7"
              [] d = 8 -> "8" [] d = 9 -> "9"

RECURSIVE IntToStr(_)
\* str(n) for n >= 0, as a sequence of characters
IntToStr(n) == IF n < 10 THEN <<Digit(n)>>
               ELSE IntToStr(n \div 10) \o <<Digit(n % 10)>>

\* int(score_val or 0) with score_val = c.get("score", {}).get("value", 0)
score_int(score) == IF score.tag = "num" THEN score.value ELSE 0

\* a test "is not False" in place of truthiness
NotFalse(w) == w # "false"

\* line 119: the truth value of our_winner
Truthy(w) == w = "true"

RECURSIVE parse_loop(_, _, _, _)
\* the loop of lines 106-116 from index i on, acc = the four locals
parse_loop(competitors, our_id, i, acc) ==
    IF i > Len(competitors) THEN acc
    ELSE LET c == competitors[i]
             team_id == IF c.team = "absent" THEN "" ELSE c.team
         IN  IF team_id = our_id
             THEN parse_loop(competitors, our_id, i + 1,
                     [acc EXCEPT !.our_score = score_int(c.score),
                                 !.our_winner = IF c.winner = "absent"
                                                THEN "false" ELSE c.winner])
             ELSE parse_loop(competitors, our_id, i + 1,
                     [acc EXCEPT !.opp_score = score_int(c.score),
                                 !.opponent_name = TeamName(c.team)])

\* a parse_row that takes the first competitor for the subject team
parse_row_first_score(row, our_id) ==
    LET competitors == row.competitions.items[1].competitors
        acc == parse_loop(competitors, our_id, 1,
                   [our_score |-> 0, opp_score |-> 0,
                    opponent_name |-> "None", our_winner |-> "false"])
        first == IF Len(competitors) > 0 THEN score_int(competitors[1].score) ELSE 0
        second == IF Len(competitors) > 1 THEN score_int(competitors[2].score) ELSE 0
    IN  IF ~row.competitions.isList \/ Len(row.competitions.items) = 0
        THEN [result |-> "None", opponent_name |-> "None", score_str |-> <<>>]
        ELSE [result |-> IF Truthy(acc.our_winner) THEN "Win" ELSE "Loss",
              opponent_name |-> acc.opponent_name,
              score_str |-> IntToStr(first) \o <<EnDash>> \o IntToStr(second)]

parse_row(row, our_id) ==
    IF ~row.competitions.isList \/ Len(row.competitions.items) = 0
    THEN [result |-> "None", opponent_name |-> "None", score_str |-> <<>>]
    ELSE LET acc == parse_loop(row.competitions.items[1].competitors, our_id, 1,
                        [our_score |-> 0, opp_score |-> 0,
                         opponent_name |-> "None", our_winner |-> "false"])
         IN  [result |-> IF Truthy(acc.our_winner) THEN "Win" ELSE "Loss",
              opponent_name |-> acc.opponent_name,
              score_str |-> IntToStr(acc.our_score) \o <<EnDash>> \o IntToStr(acc.opp_score)]

\* one returned row: the event's columns and the parsed columns
Entry(row, our_id) ==
    LET p == parse_row(row, our_id)
    IN  [id |-> row.id, competitions |-> row.competitions,
         result |-> p.result, opponent_name |-> p.opponent_name,
         score_str |-> p.score_str]

Concat(reg, post) == reg \o post
Deduped(df) == IF HasIdColumn(df) THEN drop_duplicates(df) ELSE df
\* lines 72-83: the boolean mask of the completed rows
CompletedRows(df) ==
    SelectRows(df, [i \in 1..Len(df) |-> is_completed(df[i].competitions)], 1)

\* the outcome of lines 60-148 on the two fetched frames:
\* raised (a KeyError) or the returned rows
get_games_raises(reg, post) ==
    LET all == Concat(reg, post)
        kept == CompletedRows(Deduped(all))
    IN  /\ Len(all) > 0
        /\ \/ ~HasCompetitionsColumn(all)          \* line 73
           \/ Len(kept) > 0 /\ ~HasIdColumn(all)   \* line 146

get_games_rows(reg, post, our_id) ==
    LET all == Concat(reg, post)
        kept == CompletedRows(Deduped(all))
    IN  IF Len(all) = 0 THEN <<>>
        ELSE [k \in 1..Len(kept) |-> Entry(kept[k], our_id)]

(***************************************************************************)
(* The call of get_games as a state machine.                               *)
(***************************************************************************)
IdleSchedule ==
    /\ target_team_id = "52"
    /\ df_reg = <<>>
    /\ df_post = <<>>
    /\ df_events = <<>>
    /\ gpc = "idle"
    /\ status_codes = <<>>

IdleSplit ==
    /\ blocks = <<>>
    /\ html_text = <<>>
    /\ sections = <<>>
    /\ spc = "idle"

IdlePrompt ==
    /\ detail = <<>>
    /\ data = <<>>
    /\ clean_text = <<>>
    /\ prompt = <<>>
    /\ ppc = "idle"

Seasons == {"2024", "2025"}
ScheduleKeys == TeamIds \X Seasons

IdleFlow ==
    /\ sel_season = "2025"
    /\ sel_team = "none"
    /\ sel_game = "none"
    /\ clicked = FALSE
    /\ cache_seasons = FALSE
    /\ cache_events = [k \in ScheduleKeys |-> "none"]
    /\ fetched_ok = {}
    /\ refetched = {}
    /\ pc = "off"
    /\ run_events = "none"
    /\ gen = "none"
    /\ chat_calls = 0
    /\ split_done = FALSE
    /\ rendered = 0
    /\ notice = "none"
    /\ crashed_at = "none"

InitSchedule ==
    /\ target_team_id \in TeamIds
    /\ df_reg = <<>>
    /\ df_post = <<>>
    /\ df_events = <<>>
    /\ gpc = "fetch_reg"
    /\ status_codes = <<>>
    /\ IdleSplit
    /\ IdlePrompt
    /\ IdleFlow

\* requests.get: the status codes an upstream response may carry
StatusCodes == {200, 404, 503}

\* line 32: response.raise_for_status() raises on a 4xx or 5xx status
raise_for_status(code) == code >= 400 /\ code < 600

\* line 45: the regular-season retrieval succeeds with a payload of payloads
FetchRegularOf(payloads) ==
    /\ gpc = "fetch_reg"
    /\ \E code \in StatusCodes :
          /\ ~raise_for_status(code)
          /\ status_codes' = Append(status_codes, code)
    /\ \E p \in payloads :
          df_reg' = fetch_schedule(p)
    /\ gpc' = "fetch_post"
    /\ UNCHANGED <<target_team_id, df_post, df_events, nonSched>>

\* line 55: the postseason retrieval succeeds with a payload of payloads
FetchPostseasonOf(payloads) ==
    /\ gpc = "fetch_post"
    /\ \E code \in StatusCodes :
          /\ ~raise_for_status(code)
          /\ status_codes' = Append(status_codes, code)
    /\ \E p \in payloads :
          df_post' = fetch_schedule(p)
    /\ gpc' = "combine"
    /\ UNCHANGED <<target_team_id, df_reg, df_events, nonSched>>

FetchRegular == FetchRegularOf(RegPayloads)

FetchPostseason == FetchPostseasonOf(PostPayloadsFor(df_reg))

\* lines 31-32: raise_for_status on a non-success response of either retrieval
FetchFails ==
    /\ gpc \in {"fetch_reg", "fetch_post"}
    /\ \E code \in StatusCodes :
          /\ raise_for_status(code)
          /\ status_codes' = Append(status_codes, code)
    /\ gpc' = "raised"
    /\ UNCHANGED <<target_team_id, df_reg, df_post, df_events, nonSched>>

\* lines 60-148
Combine ==
    /\ gpc = "combine"
    /\ IF get_games_raises(df_reg, df_post)
       THEN gpc' = "raised" /\ UNCHANGED df_events
       ELSE /\ gpc' = "returned"
            /\ df_events' = get_games_rows(df_reg, df_post, target_team_id)
    /\ UNCHANGED <<target_team_id, df_reg, df_post, status_codes, nonSched>>

NextSchedule == FetchRegular \/ FetchPostseason \/ FetchFails \/ Combine

SpecSchedule == InitSchedule /\ [][NextSchedule]_vars

(***************************************************************************)
(* Properties of get_games.                                                *)
(***************************************************************************)
Merged == Concat(df_reg, df_post)
Returned == gpc = "returned"
Entries == {df_events[k] : k \in 1..Len(df_events)}

\* the first competition of a row is marked completed = true
SourceCompleted(comps) ==
    /\ comps.isList
    /\ comps.items # <<>>
    /\ Head(comps.items).completed = "true"

\* C1: every returned entry comes from an event of the two payloads whose
\* first competition has status.type.completed = true; an event that is not
\* completed (false, absent, no competitions) never appears in the output.
C1_OnlyCompleted ==
    Returned =>
        \A k \in 1..Len(df_events) :
            /\ SourceCompleted(df_events[k].competitions)
            /\ \E i \in 1..Len(Merged) :
                   /\ Merged[i].id = df_events[k].id
                   /\ Merged[i].competitions = df_events[k].competitions

\* a schedule was returned that kept a finished game and dropped an
\* unfinished one
C1_Witness ==
    /\ Returned
    /\ Len(df_events) > 0
    /\ \E i \in 1..Len(Merged) : ~SourceCompleted(Merged[i].competitions)

Occurrences(g) == {i \in 1..Len(Merged) : Merged[i].id = g}
FirstOccurrence(g) == CHOOSE i \in Occurrences(g) : \A j \in Occurrences(g) : i <= j
EntriesOf(g) == {k \in 1..Len(df_events) : df_events[k].id = g}
GameIds == {Merged[i].id : i \in 1..Len(Merged)} \ {NoId}

\* C2 as stated: a game identifier that occurs more than once in the two
\* payloads has exactly one entry in the output, the one of its first
\* occurrence.
C2_ExactlyOneEntry ==
    Returned =>
        \A g \in GameIds :
            Cardinality(Occurrences(g)) > 1 =>
                /\ Cardinality(EntriesOf(g)) = 1
                /\ \A k \in EntriesOf(g) :
                       df_events[k].competitions
                           = Merged[FirstOccurrence(g)].competitions

\* C2 amended: game identifiers are unique in the output; the entry of an
\* identifier is the one of its first occurrence in retrieval order, and
\* there is one exactly when that first occurrence is completed (a later,
\* completed occurrence of an identifier whose first occurrence is not
\* completed yields no entry).
C2_FirstOccurrenceOrNone ==
    Returned =>
        /\ \A k, l \in 1..Len(df_events) :
               df_events[k].id = df_events[l].id => k = l
        /\ \A g \in GameIds :
               /\ Cardinality(EntriesOf(g))
                      = IF SourceCompleted(Merged[FirstOccurrence(g)].competitions)
                        THEN 1 ELSE 0
               /\ \A k \in EntriesOf(g) :
                      df_events[k].competitions
                          = Merged[FirstOccurrence(g)].competitions

\* an identifier occurs in both payloads with different documents and the
\* output holds the entry of the regular-season one
C2_Witness ==
    /\ Returned
    /\ \E i \in 1..Len(df_reg), j \in 1..Len(df_post) :
           /\ df_reg[i].id = df_post[j].id
           /\ df_reg[i].id # NoId
           /\ df_reg[i].competitions # df_post[j].competitions
           /\ SourceCompleted(df_post[j].competitions)
           /\ \E k \in 1..Len(df_events) :
                  /\ df_events[k].id = df_reg[i].id
                  /\ df_events[k].competitions = df_reg[i].competitions

CompetitorsOf(e) == Head(e.competitions.items).competitors
Subjects(e) ==
    {i \in 1..Len(CompetitorsOf(e)) : CompetitorsOf(e)[i].team = target_team_id}
Others(e) == (1..Len(CompetitorsOf(e))) \ Subjects(e)

\* C3: the result of a returned entry is "Win" when the subject competitor
\* has winner = true and "Loss" when that flag is false, null or absent or
\* when no competitor is the subject team; it is never anything else.
C3_WinOrLoss ==
    Returned =>
        \A e \in Entries :
            /\ e.result \in {"Win", "Loss"}
            /\ (/\ Subjects(e) # {}
                /\ \A i \in Subjects(e) : CompetitorsOf(e)[i].winner = "true")
                   => e.result = "Win"
            /\ (\A i \in Subjects(e) :
                    CompetitorsOf(e)[i].winner \in {"false", "null", "absent"})
                   => e.result = "Loss"

\* an entry was returned for a subject without a winner flag, whose
\* opponent carries winner = true, and its result is "Loss"
C3_Witness ==
    /\ Returned
    /\ \E e \in Entries :
           /\ Subjects(e) # {}
           /\ \A i \in Subjects(e) : CompetitorsOf(e)[i].winner = "absent"
           /\ Others(e) # {}
           /\ \A i \in Others(e) : CompetitorsOf(e)[i].winner = "true"
           /\ e.result = "Loss"

ScoreOrZero(c) == IF c.score.tag = "num" THEN c.score.value ELSE 0
SideScore(e, side) ==
    IF side = {} THEN 0 ELSE ScoreOrZero(CompetitorsOf(e)[CHOOSE i \in side : TRUE])

\* C10: with at most one competitor of the requested team and at most one
\* other competitor, the score label of a returned entry is the subject's
\* score, U+2013, the other competitor's score, in decimal, where a side
\* whose score value is absent or null, or that has no competitor, counts 0.
C10_ScoreLabel ==
    Returned =>
        \A e \in Entries :
            (Cardinality(Subjects(e)) <= 1 /\ Cardinality(Others(e)) <= 1) =>
                e.score_str = IntToStr(SideScore(e, Subjects(e)))
                                \o <<EnDash>>
                                \o IntToStr(SideScore(e, Others(e)))

\* the subject is listed second and has no score value; the opponent scored 12
C10_Witness ==
    /\ Returned
    /\ \E e \in Entries :
           /\ Subjects(e) = {2}
           /\ Others(e) = {1}
           /\ CompetitorsOf(e)[2].score = AbsentScore
           /\ CompetitorsOf(e)[1].score = Num(12)
           /\ e.score_str = <<"0", EnDash, "1", "2">>

(***************************************************************************)
(* split_sections (src/app.py 179-183).  A text is a sequence of           *)
(* characters; the pattern is <h2>(.*?)</h2>\s*(.*?)(?=<h2>|$) with DOTALL. *)
(***************************************************************************)
H2Open == <<"<", "h", "2", ">">>
H2Close == <<"<", "/", "h", "2", ">">>
Whitespace == {" ", "\n", "\t"}

Min(S) == CHOOSE x \in S : \A y \in S : x <= y

\* lit occurs in text at position p
IsPrefixAt(text, p, lit) ==
    /\ p + Len(lit) - 1 <= Len(text)
    /\ \A i \in 1..Len(lit) : text[p + i - 1] = lit[i]

\* the first position >= p where lit occurs, 0 when there is none
FindFrom(text, p, lit) ==
    LET hits == {q \in p..Len(text) : IsPrefixAt(text, q, lit)}
    IN  IF hits = {} THEN 0 ELSE Min(hits)

\* \s* is greedy: the first position >= p that holds no whitespace
SkipSpace(text, p) ==
    Min({q \in p..(Len(text) + 1) : q > Len(text) \/ text[q] \notin Whitespace})

\* (.*?)(?=<h2>|$): the first position >= p where <h2> starts or the text
\* ends; $ also matches before a newline that ends the text
BodyEnd(text, p) ==
    Min({q \in p..(Len(text) + 1) :
            \/ IsPrefixAt(text, q, H2Open)
            \/ q = Len(text) + 1
            \/ q = Len(text) /\ text[q] = "\n"})

RECURSIVE findall(_, _)
\* re.findall from position p on: the (title, body) groups of the
\* successive non-overlapping matches
findall(text, p) ==
    LET s == FindFrom(text, p, H2Open)
        c == FindFrom(text, s + Len(H2Open), H2Close)
        w == SkipSpace(text, c + Len(H2Close))
        b == BodyEnd(text, w)
    IN  IF s = 0 \/ c = 0 THEN <<>>
        ELSE <<[title |-> SubSeq(text, s + Len(H2Open), c - 1),
                body |-> SubSeq(text, w, b - 1)]>>
             \o findall(text, b)

\* str.lstrip alone
lstrip(t) ==
    LET keep == {i \in 1..Len(t) : t[i] \notin Whitespace}
    IN  IF keep = {} THEN <<>> ELSE SubSeq(t, Min(keep), Len(t))

\* str.strip
strip(t) ==
    LET keep == {i \in 1..Len(t) : t[i] \notin Whitespace}
    IN  IF keep = {} THEN <<>>
        ELSE SubSeq(t, Min(keep), CHOOSE x \in keep : \A y \in keep : y <= x)

Put(d, key, val) == [k \in DOMAIN d \cup {key} |-> IF k = key THEN val ELSE d[k]]

RECURSIVE to_dict_setdefault(_, _, _)
\* a fold that keeps the value a key got first
to_dict_setdefault(matches, i, d) ==
    IF i > Len(matches) THEN d
    ELSE LET key == strip(matches[i].title)
         IN  to_dict_setdefault(matches, i + 1,
                 IF key \in DOMAIN d THEN d
                 ELSE Put(d, key, strip(matches[i].body)))

RECURSIVE to_dict(_, _, _)
\* the dict comprehension of line 183: a later item overwrites an earlier one
to_dict(matches, i, d) ==
    IF i > Len(matches) THEN d
    ELSE to_dict(matches, i + 1,
                 Put(d, strip(matches[i].title), strip(matches[i].body)))

\* lines 181-183
split_sections(text) == to_dict(findall(text, 1), 1, <<>>)

(***************************************************************************)
(* The generator's output and the call of split_sections.                  *)
(***************************************************************************)
Titles == {<<"A">>, <<" ", "A">>, <<"B">>, <<"C", " ", "D", "\n">>}
Bodies == {<<>>, <<"x">>, <<" ", "x", "\n">>, <<"x", " ", "y", " ">>}
Blocks == [title : Titles, body : Bodies]

RECURSIVE Render(_)
\* the text <h2>T1</h2>body1<h2>T2</h2>body2...
Render(bs) ==
    IF bs = <<>> THEN <<>>
    ELSE H2Open \o Head(bs).title \o H2Close \o Head(bs).body \o Render(Tail(bs))

InitSplit ==
    /\ blocks = <<>>
    /\ html_text = <<>>
    /\ sections = <<>>
    /\ spc = "generate"
    /\ IdleSchedule
    /\ IdlePrompt
    /\ IdleFlow

\* response.text: the generator wrote some headed blocks
GeneratorReturns ==
    /\ spc = "generate"
    /\ \E bs \in SeqsUpTo(Blocks, MaxBlocks) :
          /\ blocks' = bs
          /\ html_text' = Render(bs)
    /\ spc' = "split"
    /\ UNCHANGED <<sections, nonSplit>>

\* line 415: sections = split_sections(response.text)
SplitSections ==
    /\ spc = "split"
    /\ sections' = split_sections(html_text)
    /\ spc' = "done"
    /\ UNCHANGED <<blocks, html_text, nonSplit>>

NextSplit == GeneratorReturns \/ SplitSections

SpecSplit == InitSplit /\ [][NextSplit]_vars

(***************************************************************************)
(* Properties of split_sections.                                           *)
(***************************************************************************)
Trimmed(t) ==
    IF \A i \in 1..Len(t) : t[i] \in Whitespace THEN <<>>
    ELSE LET first == CHOOSE i \in 1..Len(t) :
                         /\ t[i] \notin Whitespace
                         /\ \A j \in 1..(i - 1) : t[j] \in Whitespace
             last == CHOOSE i \in 1..Len(t) :
                         /\ t[i] \notin Whitespace
                         /\ \A j \in (i + 1)..Len(t) : t[j] \in Whitespace
         IN  [k \in 1..(last - first + 1) |-> t[first + k - 1]]

SplitDone == spc = "done"
TrimmedTitles == {Trimmed(blocks[i].title) : i \in 1..Len(blocks)}

\* C8 as stated: when the titles of the blocks are pairwise distinct, the
\* keys are exactly the trimmed titles and each block's trimmed title maps
\* to that block's trimmed body.
C8_DistinctTitles ==
    SplitDone =>
        ((\A i, j \in 1..Len(blocks) :
             blocks[i].title = blocks[j].title => i = j)
         => /\ DOMAIN sections = TrimmedTitles
            /\ \A i \in 1..Len(blocks) :
                   sections[Trimmed(blocks[i].title)] = Trimmed(blocks[i].body))

\* C8 amended: when the titles of the blocks are pairwise distinct after
\* trimming, the keys are exactly the trimmed titles that occur (three keys
\* for three headings) and each maps to the trimmed body of its block, the
\* body running to the next heading or the end of the text.
C8_DistinctTrimmedTitles ==
    SplitDone =>
        ((\A i, j \in 1..Len(blocks) :
             Trimmed(blocks[i].title) = Trimmed(blocks[j].title) => i = j)
         => /\ DOMAIN sections = TrimmedTitles
            /\ Cardinality(DOMAIN sections) = Len(blocks)
            /\ \A i \in 1..Len(blocks) :
                   sections[Trimmed(blocks[i].title)] = Trimmed(blocks[i].body))

\* three blocks with three different headings, bodies with blanks around
\* them, were split into three keys
C8_Witness ==
    /\ SplitDone
    /\ Len(blocks) = 3
    /\ Cardinality(TrimmedTitles) = 3
    /\ Cardinality(DOMAIN sections) = 3
    /\ \E i \in 1..Len(blocks) :
           /\ blocks[i].body # Trimmed(blocks[i].body)
           /\ blocks[i].title # Trimmed(blocks[i].title)

LastBlockOf(key) ==
    CHOOSE i \in 1..Len(blocks) :
        /\ Trimmed(blocks[i].title) = key
        /\ \A j \in (i + 1)..Len(blocks) : Trimmed(blocks[j].title) # key

\* C9: the mapping has one key per distinct trimmed title, and a title that
\* occurs more than once maps to the trimmed body of its last occurrence.
C9_LastOccurrenceWins ==
    SplitDone =>
        /\ DOMAIN sections = TrimmedTitles
        /\ \A key \in TrimmedTitles :
               sections[key] = Trimmed(blocks[LastBlockOf(key)].body)

\* <h2>A</h2>x<h2>A</h2>y was split and A maps to y
C9_Witness ==
    /\ SplitDone
    /\ \E i, j \in 1..Len(blocks) :
           /\ i < j
           /\ blocks[i].title = blocks[j].title
           /\ Trimmed(blocks[i].body) # Trimmed(blocks[j].body)
           /\ j = LastBlockOf(Trimmed(blocks[j].title))
           /\ sections[Trimmed(blocks[j].title)] = Trimmed(blocks[j].body)

(***************************************************************************)
(* The prompt builder (src/app.py 156-160 and 282-376).  A JSON value is   *)
(* a record: t is its type, s the characters of a string or number, kids   *)
(* the key/value pairs of an object or the items of a list.                *)
(***************************************************************************)
Quote == "\""
Backslash == "\\"

JStr(chars) == [t |-> "str", s |-> chars, kids |-> <<>>]
JNum(chars) == [t |-> "num", s |-> chars, kids |-> <<>>]
JObj(pairs) == [t |-> "obj", s |-> <<>>, kids |-> pairs]
JList(items) == [t |-> "list", s |-> <<>>,
                 kids |-> [i \in 1..Len(items) |-> [k |-> <<>>, v |-> items[i]]]]
Pair(key, val) == [k |-> key, v |-> val]
\* data.get(field) of a key the document does not carry
Missing == [t |-> "missing", s |-> <<>>, kids |-> <<>>]

RECURSIVE Escape(_)
\* json.dumps of the characters of a string: " and \ get a backslash
Escape(chars) ==
    IF chars = <<>> THEN <<>>
    ELSE (IF Head(chars) \in {Quote, Backslash}
          THEN <<Backslash, Head(chars)>> ELSE <<Head(chars)>>)
         \o Escape(Tail(chars))

DumpStr(chars) == <<Quote>> \o Escape(chars) \o <<Quote>>

RECURSIVE dumps(_)
RECURSIVE DumpKids(_, _, _)
\* the kids from index i on, joined with the item separator ","
DumpKids(v, i, withKeys) ==
    IF i > Len(v.kids) THEN <<>>
    ELSE (IF i > 1 THEN <<",">> ELSE <<>>)
         \o (IF withKeys THEN DumpStr(v.kids[i].k) \o <<":">> ELSE <<>>)
         \o dumps(v.kids[i].v)
         \o DumpKids(v, i + 1, withKeys)

\* json.dumps(section, separators=(',', ':'))
dumps(v) ==
    CASE v.t = "str" -> DumpStr(v.s)
      [] v.t = "num" -> v.s
      [] v.t = "obj" -> <<"{">> \o DumpKids(v, 1, TRUE) \o <<"}">>
      [] v.t = "list" -> <<"[">> \o DumpKids(v, 1, FALSE) \o <<"]">>

\* the section names of line 291, upper-cased
Upper(field) ==
    CASE field = "header" -> <<"H", "E", "A", "D", "E", "R">>
      [] field = "boxscore" -> <<"B", "O", "X", "S", "C", "O", "R", "E">>
      [] field = "leaders" -> <<"L", "E", "A", "D", "E", "R", "S">>
      [] field = "gameInfo" -> <<"G", "A", "M", "E", "I", "N", "F", "O">>
      [] field = "plays" -> <<"P", "L", "A", "Y", "S">>
      [] field = "scoring" -> <<"S", "C", "O", "R", "I", "N", "G">>

MarkerOpen == <<"\n", "=", "=", "=", " ">>
MarkerMissing == <<" ", "(", "M", "I", "S", "S", "I", "N", "G", ")">>
MarkerClose == <<" ", "=", "=", "=", "\n">>

\* lines 156-160
safe_dump(section, name) ==
    IF section = Missing
    THEN MarkerOpen \o name \o MarkerMissing \o MarkerClose
    ELSE MarkerOpen \o name \o MarkerClose \o dumps(section) \o <<"\n">>

HrefKey == <<Quote, "h", "r", "e", "f", Quote>>

\* the position after the match of "href"\s*:\s*"[^"]*"\s*(,)? that starts
\* at s, 0 when none starts there
MatchEnd(text, s) ==
    LET a == SkipSpace(text, s + Len(HrefKey))
        b == SkipSpace(text, a + 1)
        c == FindFrom(text, b + 1, <<Quote>>)
        d == SkipSpace(text, c + 1)
    IN  IF /\ IsPrefixAt(text, s, HrefKey)
           /\ a <= Len(text) /\ text[a] = ":"
           /\ b <= Len(text) /\ text[b] = Quote
           /\ c # 0
        THEN IF d <= Len(text) /\ text[d] = "," THEN d + 1 ELSE d
        ELSE 0

\* a substitution that stops after the first match (count=1)
re_sub_once(text, p) ==
    LET starts == {q \in p..Len(text) : MatchEnd(text, q) # 0}
    IN  IF starts = {} THEN SubSeq(text, p, Len(text))
        ELSE SubSeq(text, p, Min(starts) - 1)
             \o SubSeq(text, MatchEnd(text, Min(starts)), Len(text))

RECURSIVE re_sub(_, _)
\* line 293: re.sub(pattern, "", text) from position p on, the leftmost
\* match first, the scan going on after each match
re_sub(text, p) ==
    LET starts == {q \in p..Len(text) : MatchEnd(text, q) # 0}
    IN  IF starts = {} THEN SubSeq(text, p, Len(text))
        ELSE SubSeq(text, p, Min(starts) - 1)
             \o re_sub(text, MatchEnd(text, Min(starts)))

EditorialFields == {"article", "news", "videos"}
SectionFields == <<"header", "boxscore", "leaders", "gameInfo", "plays", "scoring">>
Fields == EditorialFields \cup {SectionFields[i] : i \in 1..Len(SectionFields)}

\* a loop that forgets the videos
strip_editorial_two(doc) ==
    [f \in DOMAIN doc |-> IF f \in {"article", "news"} THEN Missing ELSE doc[f]]

\* lines 285-287: del data[field] for the three editorial fields
strip_editorial(doc) ==
    [f \in DOMAIN doc |-> IF f \in EditorialFields THEN Missing ELSE doc[f]]

RECURSIVE dump_sections(_, _)
\* lines 290-292 from the i-th section on
dump_sections(doc, i) ==
    IF i > Len(SectionFields) THEN <<>>
    ELSE safe_dump(doc[SectionFields[i]], Upper(SectionFields[i]))
         \o dump_sections(doc, i + 1)

\* lines 290-293
build_clean_text(doc) == re_sub(dump_sections(doc, 1), 1)

\* lines 296-376: the constant template around the game data and the team name
build_prompt(text, team_name) ==
    <<"TEMPLATE: persona ... BEGIN GAME DATA">> \o text
    \o <<"END GAME DATA ... TASK: Analyze ", team_name, " ... RULES, OUTPUT FORMAT">>

(***************************************************************************)
(* Game detail documents.                                                  *)
(***************************************************************************)
DistinctKeys(pairs) ==
    \A i, j \in 1..Len(pairs) : pairs[i].k = pairs[j].k => i = j

HrefName == <<"h", "r", "e", "f">>
KeyNames == {HrefName, <<"i", "d">>, <<"q", Quote, "h", "r", "e", "f">>}
Leaves == {JStr(<<"u">>), JStr(<<"a", Quote, "b">>), JStr(<<"c", Backslash>>),
           JNum(<<"1">>)}
FlatObjects ==
    {JObj(ps) : ps \in {q \in SeqsUpTo([k : KeyNames, v : Leaves], MaxPairs) :
                          DistinctKeys(q)}}
HrefObject == JObj(<<Pair(HrefName, JStr(<<"u">>))>>)
IdObject == JObj(<<Pair(<<"i", "d">>, JNum(<<"1">>))>>)
\* a link list under a key, followed by an href as the object's last key
Nested(o) ==
    JObj(<<Pair(<<"l">>, JList(<<o, HrefObject>>)), Pair(HrefName, JStr(<<"u">>))>>)
SectionValues == Leaves \cup FlatObjects \cup {Nested(o) : o \in FlatObjects}

\* the editorial fields hold recap text, written with characters of their own
EditorialChars == {"~", "^", "%"}
EditorialValue(f) ==
    CASE f = "article" -> JStr(<<"~">>)
      [] f = "news" -> JList(<<JStr(<<"^">>)>>)
      [] f = "videos" -> JList(<<JObj(<<Pair(HrefName, JStr(<<"%">>))>>)>>)

\* documents with one section of any value
DeepDocs ==
    {[f \in Fields |->
         IF f = "header" THEN h
         ELSE IF f = "scoring" THEN sc
         ELSE IF f \in EditorialFields /\ ed THEN EditorialValue(f)
         ELSE Missing] :
        h \in SectionValues, sc \in {Missing, HrefObject}, ed \in BOOLEAN}

\* documents with any set of fields present
WideDocs ==
    {[f \in Fields |->
         IF f \notin present THEN Missing
         ELSE IF f \in EditorialFields THEN EditorialValue(f)
         ELSE IF f = "plays" THEN HrefObject ELSE IdObject] :
        present \in SUBSET Fields}

GameDetails == DeepDocs \cup WideDocs

InitPrompt ==
    /\ detail = <<>>
    /\ data = <<>>
    /\ clean_text = <<>>
    /\ prompt = <<>>
    /\ ppc = "load"
    /\ IdleSchedule
    /\ IdleSplit
    /\ IdleFlow

\* line 282: data = load_game_from_espn(selected_game_id)
LoadGame ==
    /\ ppc = "load"
    /\ \E doc \in GameDetails : detail' = doc /\ data' = doc
    /\ ppc' = "strip"
    /\ UNCHANGED <<clean_text, prompt, nonPrompt>>

\* lines 285-287
StripEditorial ==
    /\ ppc = "strip"
    /\ data' = strip_editorial(data)
    /\ ppc' = "dump"
    /\ UNCHANGED <<detail, clean_text, prompt, nonPrompt>>

\* lines 290-376
BuildPrompt ==
    /\ ppc = "dump"
    /\ clean_text' = build_clean_text(data)
    /\ prompt' = build_prompt(build_clean_text(data), "Florida Gators")
    /\ ppc' = "built"
    /\ UNCHANGED <<detail, data, nonPrompt>>

NextPrompt == LoadGame \/ StripEditorial \/ BuildPrompt

SpecPrompt == InitPrompt /\ [][NextPrompt]_vars

(***************************************************************************)
(* Properties of the prompt builder.                                       *)
(***************************************************************************)
Built == ppc = "built"
Blank(text, from, to) == \A i \in from..to : text[i] \in Whitespace

\* text holds a substring "href", blanks, a colon, blanks, and a quoted value
HasHrefPattern(text) ==
    \E s \in 1..Len(text) :
        /\ s + 5 <= Len(text)
        /\ text[s] = Quote /\ text[s + 1] = "h" /\ text[s + 2] = "r"
        /\ text[s + 3] = "e" /\ text[s + 4] = "f" /\ text[s + 5] = Quote
        /\ \E a \in (s + 6)..Len(text) :
              /\ text[a] = ":"
              /\ Blank(text, s + 6, a - 1)
              /\ \E b \in (a + 1)..Len(text) :
                    /\ text[b] = Quote
                    /\ Blank(text, a + 1, b - 1)
                    /\ \E c \in (b + 1)..Len(text) : text[c] = Quote

\* C6: whatever the game detail document (href keys at any depth, as the
\* last key of an object, with escaped quotes in the value), the text of the
\* prompt holds no substring of the form "href":"...".
C6_NoHrefPattern ==
    Built => ~HasHrefPattern(clean_text) /\ ~HasHrefPattern(prompt)

\* a prompt was built from a header with a nested href after a key that ends
\* in "href, whose value holds an escaped quote, and a last-key href
C6_Witness ==
    /\ Built
    /\ \E o \in FlatObjects :
          /\ detail["header"] = Nested(o)
          /\ Len(o.kids) = 2
          /\ o.kids[1].k = <<"q", Quote, "h", "r", "e", "f">>
          /\ o.kids[2] = Pair(HrefName, JStr(<<"a", Quote, "b">>))
    /\ HasHrefPattern(dump_sections(detail, 1))

\* C7: the prompt holds no content of the top-level article, news or videos
\* fields: the three keys are gone from the document before it is
\* serialized, and no character of theirs is in the payload or the prompt.
C7_NoEditorialContent ==
    ppc \in {"dump", "built"} =>
        /\ \A f \in EditorialFields : data[f] = Missing
        /\ \A i \in 1..Len(clean_text) : clean_text[i] \notin EditorialChars
        /\ \A i \in 1..Len(prompt) : prompt[i] \notin EditorialChars

\* a prompt was built from a document that held all three editorial fields
\* and all six sections
C7_Witness ==
    /\ Built
    /\ \A f \in Fields : detail[f] # Missing
    /\ Len(clean_text) > 0

(***************************************************************************)
(* The script (src/app.py 212-432).  Streamlit runs it from the top after  *)
(* every interaction; a run is a sequence of steps, pc its position.       *)
(* An uncaught exception ends the run with the framework's error surface.  *)
(***************************************************************************)
NumCards == 7     \* the render_card calls of lines 418-432

\* the run's own state at its start
FreshRun ==
    /\ run_events' = "none"
    /\ gen' = "none"
    /\ chat_calls' = 0
    /\ split_done' = FALSE
    /\ rendered' = 0
    /\ notice' = "none"
    /\ crashed_at' = "none"

Waiting == pc \in {"idle"}

\* the keys of the two retrievals without arguments
RosterKey == <<"teams", "-">>
SeasonsKey == <<"seasons", "-">>

\* an upstream retrieval for key returned a value: note a repeated one
NoteFetch(key) ==
    /\ fetched_ok' = fetched_ok \cup {key}
    /\ refetched' = IF key \in fetched_ok THEN refetched \cup {key} ELSE refetched

Crash ==
    /\ pc' = "idle"
    /\ crashed_at' = pc

\* an except branch that falls through to the parsing
AfterExceptFallThrough == "split"

\* line 412: st.stop() ends the run
AfterExcept == "idle"

InitFlow ==
    /\ sel_season = "2025"
    /\ sel_team = "none"
    /\ sel_game = "none"
    /\ clicked = FALSE
    /\ cache_seasons = FALSE
    /\ cache_events = [k \in ScheduleKeys |-> "none"]
    /\ fetched_ok = {}
    /\ refetched = {}
    /\ pc = "load_seasons"
    /\ run_events = "none"
    /\ gen = "none"
    /\ chat_calls = 0
    /\ split_done = FALSE
    /\ rendered = 0
    /\ notice = "none"
    /\ crashed_at = "none"
    /\ IdleSchedule
    /\ IdleSplit
    /\ IdlePrompt

\* the user reruns the script as it is
Rerun ==
    /\ Waiting
    /\ clicked' = FALSE
    /\ pc' = "load_seasons"
    /\ FreshRun
    /\ UNCHANGED <<sel_season, sel_team, sel_game, cacheVars, nonFlow>>

\* the user picks another season in the selectbox the last run showed
SelectSeason ==
    /\ Waiting
    /\ crashed_at # "load_seasons"
    /\ \E s \in Seasons \ {sel_season} : sel_season' = s
    /\ sel_game' = "none"
    /\ clicked' = FALSE
    /\ pc' = "load_seasons"
    /\ FreshRun
    /\ UNCHANGED <<sel_team, cacheVars, nonFlow>>

\* the user picks another team, or the placeholder
SelectTeam ==
    /\ Waiting
    /\ crashed_at \notin {"load_seasons", "get_teams"}
    /\ \E t \in (TeamIds \cup {"none"}) \ {sel_team} : sel_team' = t
    /\ sel_game' = "none"
    /\ clicked' = FALSE
    /\ pc' = "load_seasons"
    /\ FreshRun
    /\ UNCHANGED <<sel_season, cacheVars, nonFlow>>

\* the user picks a game of the selectbox the last run showed
SelectGame ==
    /\ Waiting
    /\ run_events = "games"
    /\ \E g \in {"none", "401"} \ {sel_game} : sel_game' = g
    /\ clicked' = FALSE
    /\ pc' = "load_seasons"
    /\ FreshRun
    /\ UNCHANGED <<sel_season, sel_team, cacheVars, nonFlow>>

\* the user presses "Generate Game Summary", shown by the last run
ClickGenerate ==
    /\ Waiting
    /\ run_events = "games"
    /\ sel_game # "none"
    /\ clicked' = TRUE
    /\ pc' = "load_seasons"
    /\ FreshRun
    /\ UNCHANGED <<sel_season, sel_team, sel_game, cacheVars, nonFlow>>

\* line 215, lines 185-194: load_seasons under st.cache_data
LoadSeasons ==
    /\ pc = "load_seasons"
    /\ \/ /\ cache_seasons                      \* a cached value
          /\ pc' = "get_teams"
          /\ UNCHANGED <<cacheVars, crashed_at>>
       \/ /\ ~cache_seasons                     \* the retrieval succeeds
          /\ cache_seasons' = TRUE
          /\ NoteFetch(SeasonsKey)
          /\ pc' = "get_teams"
          /\ UNCHANGED <<cache_events, crashed_at>>
       \/ /\ ~cache_seasons                     \* raise_for_status raises
          /\ Crash
          /\ UNCHANGED cacheVars
    /\ UNCHANGED <<widgetVars, run_events, gen, chat_calls, split_done, rendered,
                   notice, nonFlow>>

\* line 239, lines 15-22: get_teams, a plain function
GetTeams ==
    /\ pc = "get_teams"
    /\ \/ /\ NoteFetch(RosterKey)                 \* the retrieval succeeds
          /\ pc' = IF sel_team = "none" THEN "idle" ELSE "load_events"
          /\ UNCHANGED crashed_at
       \/ /\ Crash                              \* raise_for_status raises
          /\ UNCHANGED <<fetched_ok, refetched>>
    /\ UNCHANGED <<widgetVars, cache_seasons, cache_events, run_events, gen,
                   chat_calls, split_done, rendered, notice, nonFlow>>

\* where the run goes with the schedule d (lines 253-280)
AfterEvents(d) ==
    IF d = "empty" \/ sel_game = "none" \/ ~clicked THEN "idle" ELSE "load_game"

\* the schedule payloads of the script runs: no events, a finished game, an
\* unfinished game, or an event without the "competitions" key
FlowEvents ==
    {Event("401", CompList(<<Competition("true", <<Won("52"), Lost("96")>>)>>)),
     Event("402", CompList(<<Competition("false", <<Won("52"), Lost("96")>>)>>)),
     Event("401", NaN)}

FlowPayloads == {<<>>} \cup {<<e>> : e \in FlowEvents}

\* lines 247-251: load_team_events_cached under st.cache_data, keyed by its
\* arguments: a cached value is used as it is (lines 253-254 follow), and
\* otherwise get_games is called
LoadTeamEvents ==
    /\ pc = "load_events"
    /\ LET key == <<sel_team, sel_season>>
       IN  \/ /\ cache_events[key] # "none"     \* a cached value
              /\ run_events' = cache_events[key]
              /\ notice' = IF cache_events[key] = "empty" THEN "warning" ELSE notice
              /\ pc' = AfterEvents(cache_events[key])
              /\ UNCHANGED schedVars
           \/ /\ cache_events[key] = "none"     \* line 249: get_games(...)
              /\ target_team_id' = sel_team
              /\ gpc' = "fetch_reg"
              /\ pc' = "get_games"
              /\ UNCHANGED <<df_reg, df_post, df_events, status_codes,
                             run_events, notice>>
    /\ UNCHANGED <<widgetVars, cacheVars, gen, chat_calls, split_done, rendered,
                   crashed_at, splitVars, promptVars>>

\* lines 24-148: the steps of get_games inside the call of line 249
GetGames ==
    /\ pc = "get_games"
    /\ \/ FetchRegularOf(FlowPayloads)
       \/ FetchPostseasonOf(FlowPayloads)
       \/ FetchFails
       \/ Combine

\* lines 249-254: get_games returns, the value is cached and an empty frame
\* gives the warning; or get_games raised, nothing is cached and the
\* exception ends the run.  The locals of get_games are gone afterwards.
GetGamesEnds ==
    /\ pc = "get_games"
    /\ LET key == <<sel_team, sel_season>>
           d == IF Len(df_events) = 0 THEN "empty" ELSE "games"
       IN  \/ /\ gpc = "returned"
              /\ cache_events' = [cache_events EXCEPT ![key] = d]
              /\ run_events' = d
              /\ notice' = IF d = "empty" THEN "warning" ELSE notice
              /\ pc' = AfterEvents(d)
              /\ NoteFetch(key)
              /\ UNCHANGED <<cache_seasons, crashed_at>>
           \/ /\ gpc = "raised"
              /\ Crash
              /\ UNCHANGED <<cacheVars, run_events, notice>>
    /\ target_team_id' = "52"
    /\ df_reg' = <<>>
    /\ df_post' = <<>>
    /\ df_events' = <<>>
    /\ gpc' = "idle"
    /\ status_codes' = <<>>
    /\ UNCHANGED <<widgetVars, gen, chat_calls, split_done, rendered,
                   splitVars, promptVars>>

\* line 282: load_game_from_espn, then the prompt and the spinner (284-391)
LoadGameDetail ==
    /\ pc = "load_game"
    /\ \/ pc' = "call_generator" /\ UNCHANGED crashed_at
       \/ Crash
    /\ UNCHANGED <<widgetVars, cacheVars, run_events, gen, chat_calls, split_done,
                   rendered, notice, nonFlow>>

\* lines 396-404: co.chat returns a response or raises
CallGenerator ==
    /\ pc = "call_generator"
    /\ chat_calls' = chat_calls + 1
    /\ \/ gen' = "ok" /\ pc' = "split"
       \/ gen' = "failed" /\ pc' = "except"
    /\ UNCHANGED <<widgetVars, cacheVars, run_events, split_done, rendered, notice,
                   crashed_at, nonFlow>>

\* lines 405-412: the except branch: the notice, then st.stop()
ExceptBranch ==
    /\ pc = "except"
    /\ notice' = "error"
    /\ pc' = AfterExcept
    /\ UNCHANGED <<widgetVars, cacheVars, run_events, gen, chat_calls, split_done,
                   rendered, crashed_at, nonFlow>>

\* line 415: sections = split_sections(response.text)
ParseSections ==
    /\ pc = "split"
    /\ split_done' = TRUE
    /\ pc' = "render"
    /\ UNCHANGED <<widgetVars, cacheVars, run_events, gen, chat_calls, rendered,
                   notice, crashed_at, nonFlow>>

\* lines 418-432: the next render_card call
RenderCard ==
    /\ pc = "render"
    /\ rendered < NumCards
    /\ rendered' = rendered + 1
    /\ pc' = IF rendered + 1 = NumCards THEN "idle" ELSE "render"
    /\ UNCHANGED <<widgetVars, cacheVars, run_events, gen, chat_calls, split_done,
                   notice, crashed_at, nonFlow>>

NextFlow ==
    \/ Rerun \/ SelectSeason \/ SelectTeam \/ SelectGame \/ ClickGenerate
    \/ LoadSeasons \/ GetTeams \/ LoadTeamEvents \/ GetGames \/ GetGamesEnds
    \/ LoadGameDetail
    \/ CallGenerator \/ ExceptBranch \/ ParseSections \/ RenderCard

SpecFlow == InitFlow /\ [][NextFlow]_vars

(***************************************************************************)
(* Properties of the script.                                               *)
(***************************************************************************)
\* C4: when co.chat raises, the run neither splits nor renders: it shows
\* the error notice and stops, co.chat was called once, and the run did not
\* end in an uncaught exception; sections are split and cards rendered only
\* after co.chat returned.
C4_FailureShortCircuits ==
    /\ gen = "failed" =>
          /\ ~split_done
          /\ rendered = 0
          /\ chat_calls = 1
          /\ crashed_at = "none"
          /\ pc \in {"except", "idle"}
          /\ pc = "idle" => notice = "error"
    /\ (split_done \/ rendered > 0) => gen = "ok"
    /\ chat_calls <= 1

\* a run ended after co.chat raised, with the error notice on the page
C4_Witness ==
    /\ gen = "failed"
    /\ pc = "idle"
    /\ notice = "error"

\* C5: no retrieval (roster, season list, schedule of a team and season) is
\* issued again for a key it has already returned a value for.
C5_NoRefetch == refetched = {}

\* the season list and the schedules are retrieved once per key
C5_CachedLoaders == refetched \subseteq {RosterKey}

(***************************************************************************)
(* Failures of the schedule retrievals and empty schedules.                *)
(***************************************************************************)
\* a response of this call of get_games carried a non-success status
HttpFailed == \E i \in 1..Len(status_codes) : raise_for_status(status_codes[i])

\* both retrievals of this call of get_games returned a success response
BothSucceeded == Len(status_codes) = 2 /\ ~HttpFailed

\* get_games has ended, by a return or by an exception
Ended == gpc \in {"returned", "raised"}

\* none of the fetched events is a completed game
NoCompletedGames == Len(CompletedRows(Merged)) = 0

\* the step in which the call of line 249 ends in the script run
CallEnds == pc = "get_games" /\ pc' # "get_games"

\* a failed retrieval makes get_games raise, and it returns only after two
\* successful retrievals
FailureRaises ==
    /\ HttpFailed => gpc = "raised" /\ df_events = <<>>
    /\ gpc = "returned" => BothSucceeded

\* the exception of get_games ends the run uncaught: no warning, no value
PropagatesToCaller ==
    CallEnds /\ gpc = "raised" =>
        /\ crashed_at' = "get_games"
        /\ pc' = "idle"
        /\ notice' = "none"
        /\ run_events' = "none"
        /\ cache_events' = cache_events

\* two successful retrievals without a completed game: get_games returns
\* the empty frame
EmptyReturns ==
    BothSucceeded /\ Ended /\ NoCompletedGames =>
        gpc = "returned" /\ df_events = <<>>

\* the returned empty frame gives the warning and no error
EmptyWarns ==
    CallEnds /\ gpc = "returned" /\ df_events = <<>> =>
        /\ notice' = "warning"
        /\ crashed_at' = "none"
        /\ run_events' = "empty"

\* C11: if either schedule retrieval returns a non-success response,
\* get_games raises and the exception reaches the caller, and no schedule
\* is returned from the retrieval that succeeded; when both retrievals
\* succeed and yield no completed game, get_games returns an empty result
\* and the run shows the warning, not an error.
C11_FailurePropagatesEmptyIsNormal ==
    [][/\ FailureRaises'
       /\ PropagatesToCaller
       /\ EmptyReturns'
       /\ EmptyWarns]_vars

\* the part of C11 on failed retrievals
C11_FailurePropagates == [][FailureRaises' /\ PropagatesToCaller]_vars

\* the frame the filter of lines 72-83 can be applied to: no row at all, or
\* some event carries the "competitions" key
Filterable == Len(Merged) = 0 \/ HasCompetitionsColumn(Merged)

\* the part of C11 on empty schedules, for the frames that can be filtered
C11_EmptyIsNormalWhenFilterable ==
    [][/\ (Filterable => EmptyReturns)'
       /\ EmptyWarns]_vars

\* get_games raised after two successful retrievals without a completed
\* game
C11_RaisedOnEmpty ==
    /\ BothSucceeded
    /\ NoCompletedGames
    /\ gpc = "raised"

=============================================================================
